---- MODULE Spec2Model ----
(***************************************************************************)
(* Model of the virus package manager (vira-language/virus).               *)
(*                                                                         *)
(*   src/source/main.go : `virus compile` driving the staged pipeline in   *)
(*                        a podman container (compileProject and helpers). *)
(*   src/cmd/main.go    : the library installer and the earlier, host-only *)
(*                        compileProject with a persistent .virus_deps.    *)
(*                                                                         *)
(* Strings that the code inspects character by character (version strings  *)
(* and version specs) are sequences of one-character strings.              *)
(***************************************************************************)
EXTENDS Integers, Sequences, FiniteSets, TLC

(***************************************************************************)
(* Bounds of the model.                                                    *)
(***************************************************************************)
MaxVersions == 3
MaxStrLen == 1

(***************************************************************************)
(* strings.HasPrefix(s, prefix)                                            *)
(***************************************************************************)
HasPrefix(s, prefix) ==
    /\ Len(prefix) <= Len(s)
    /\ \A i \in 1..Len(prefix) : s[i] = prefix[i]

(***************************************************************************)
(* resolveVersion(versions, spec): the code returns a pointer into the     *)
(* slice or nil; the model returns the 1-based index of the element the    *)
(* pointer refers to, and 0 for nil.                                       *)
(***************************************************************************)
RECURSIVE ScanPrefix(_, _, _)
ScanPrefix(versions, prefix, i) ==
    IF i < 1 THEN 0
    ELSE IF HasPrefix(versions[i].version, prefix) THEN i
    ELSE ScanPrefix(versions, prefix, i - 1)

RECURSIVE ScanExact(_, _, _)
ScanExact(versions, spec, i) ==
    IF i < 1 THEN 0
    ELSE IF versions[i].version = spec THEN i
    ELSE ScanExact(versions, spec, i - 1)

resolveVersion_LatestIsFirst(versions, spec) ==
    IF spec = <<"*">>
    THEN IF Len(versions) > 0 THEN 1 ELSE 0
    ELSE IF HasPrefix(spec, <<"^">>)
    THEN ScanPrefix(versions, SubSeq(spec, 2, Len(spec)), Len(versions))
    ELSE ScanExact(versions, spec, Len(versions))

RECURSIVE ScanPrefixUp(_, _, _)
ScanPrefixUp(versions, prefix, i) ==
    IF i > Len(versions) THEN 0
    ELSE IF HasPrefix(versions[i].version, prefix) THEN i
    ELSE ScanPrefixUp(versions, prefix, i + 1)

resolveVersion_OldestFirst(versions, spec) ==
    IF spec = <<"*">>
    THEN IF Len(versions) > 0 THEN Len(versions) ELSE 0
    ELSE IF HasPrefix(spec, <<"^">>)
    THEN ScanPrefixUp(versions, SubSeq(spec, 2, Len(spec)), 1)
    ELSE ScanExact(versions, spec, Len(versions))

RECURSIVE ScanExactUp(_, _, _)
ScanExactUp(versions, spec, i) ==
    IF i > Len(versions) THEN 0
    ELSE IF versions[i].version = spec THEN i
    ELSE ScanExactUp(versions, spec, i + 1)

resolveVersion_ExactOldestFirst(versions, spec) ==
    IF spec = <<"*">>
    THEN IF Len(versions) > 0 THEN Len(versions) ELSE 0
    ELSE IF HasPrefix(spec, <<"^">>)
    THEN ScanPrefix(versions, SubSeq(spec, 2, Len(spec)), Len(versions))
    ELSE ScanExactUp(versions, spec, 1)

resolveVersion(versions, spec) ==
    IF spec = <<"*">>
    THEN IF Len(versions) > 0 THEN Len(versions) ELSE 0
    ELSE IF HasPrefix(spec, <<"^">>)
    THEN ScanPrefix(versions, SubSeq(spec, 2, Len(spec)), Len(versions))
    ELSE ScanExact(versions, spec, Len(versions))

(***************************************************************************)
(* Inputs of the resolver: version strings over a small alphabet, the      *)
(* version strings of the documented example, and the three spec forms.    *)
(***************************************************************************)
Chars == {"1", "."}

StringsUpTo(n) == UNION {[1..k -> Chars] : k \in 0..n}

V100 == <<"1", ".", "0", ".", "0">>
V120 == <<"1", ".", "2", ".", "0">>
V200 == <<"2", ".", "0", ".", "0">>
V999 == <<"9", ".", "9", ".", "9">>

VersionStrings == StringsUpTo(MaxStrLen) \cup {V100, V120, V200}

Urls == {"u1"}

VersionLists ==
    UNION {[1..k -> [version : VersionStrings, url : Urls]] : k \in 0..MaxVersions}

ExampleVersions ==
    << [version |-> V100, url |-> "u1"],
       [version |-> V120, url |-> "u1"],
       [version |-> V200, url |-> "u1"] >>

Prefixes == StringsUpTo(MaxStrLen) \cup {<<"2">>, <<"1", ".">>, <<"1", ".", "2">>}

VersionSpecs ==
    {<<"*">>} \cup {<<"^">> \o p : p \in Prefixes} \cup VersionStrings \cup {V999}

(***************************************************************************)
(* The catalog served at indexURL (LibraryIndex), fixed for the build      *)
(* model: versions are listed oldest first.  A url is its host and its     *)
(* last path element, the latter as <<stem, extension>>.                   *)
(***************************************************************************)
Index ==
    << [name |-> "liba",
        versions |-> << [version |-> <<"1", ".", "0">>,
                         url |-> [host |-> "cdn", base |-> <<"liba", ".vira">>]],
                        [version |-> <<"2", ".", "0">>,
                         url |-> [host |-> "cdn", base |-> <<"liba", ".c">>]] >>],
       [name |-> "libb",
        versions |-> << [version |-> <<"2", ".", "0">>,
                         url |-> [host |-> "cdn", base |-> <<"libb", ".CPP">>]] >>],
       [name |-> "libc",
        versions |-> << [version |-> <<"1", ".", "0">>,
                         url |-> [host |-> "cdn", base |-> <<"readme", ".txt">>]] >> ] >>

\* names a manifest may declare; "libz" is not in the catalog
DepNames == {"liba", "libb", "libc", "libz"}

DepSpecs == {<<"*">>, <<"^", "1", ".">>, <<"2", ".", "0">>}

MaxDeps == 2
MaxBuilds == 2

\* Config.Dependencies: a map from library name to version spec
Configs ==
    UNION {[D -> DepSpecs] : D \in {S \in SUBSET DepNames : Cardinality(S) <= MaxDeps}}

PackageName == "myproject"

(***************************************************************************)
(* findLibrary(index, name): index of the first library of that name,      *)
(* 0 for nil.                                                              *)
(***************************************************************************)
RECURSIVE FindFrom(_, _, _)
FindFrom(index, name, i) ==
    IF i > Len(index) THEN 0
    ELSE IF index[i].name = name THEN i
    ELSE FindFrom(index, name, i + 1)

findLibrary(index, name) == FindFrom(index, name, 1)

(***************************************************************************)
(* Paths.  A path is its root (the build's temporary directory on the      *)
(* host, the container mount point /work, or the process's working         *)
(* directory), the directories below it, the file name as                  *)
(* <<stem, extension>> (<<>> for a directory) and a suffix appended to the *)
(* whole string.                                                           *)
(***************************************************************************)
NoRoot == [kind |-> "none", id |-> 0]
WorkRoot == [kind |-> "/work", id |-> 0]
CwdRoot == [kind |-> "cwd", id |-> 0]
TempRoot(b) == [kind |-> "virus-build", id |-> b]

MkPath(root, dir, file) == [root |-> root, dir |-> dir, file |-> file, suffix |-> ""]
NoPath == MkPath(NoRoot, <<>>, <<>>)

depsDir == ".virus_deps"

\* strings.Replace(p, old, new, 1) for a path p and directory prefixes old, new
ReplaceRoot(p, old, new) == IF p.root = old THEN [p EXCEPT !.root = new] ELSE p

\* filepath.Join(depsDirTemp, name, version.Version)
DepPath(root, name, version) == MkPath(root, <<depsDir, name, version>>, <<>>)

\* filepath.Join(depPath, fileName)
JoinFile(dirPath, fileName) == [dirPath EXCEPT !.file = fileName]

\* filepath.Base(version.URL)
Base(url) == url.base

\* filepath.Ext(fileName)
Ext(fileName) == fileName[2]

\* strings.ToLower on the extensions of the catalog
ToLower(ext) ==
    CASE ext = ".VIRA" -> ".vira"
      [] ext = ".C" -> ".c"
      [] ext = ".CPP" -> ".cpp"
      [] OTHER -> ext

(***************************************************************************)
(* One element of an exec's argv.                                          *)
(***************************************************************************)
Word(w) == [kind |-> "word", word |-> w, path |-> NoPath]
File(p) == [kind |-> "file", word |-> "", path |-> p]
Incl(p) == [kind |-> "file", word |-> "-I", path |-> p]

\* execInContainer's (exit, err) results: err # nil comes with exit = -1
ExecOutcomes == {[exit |-> 0, err |-> FALSE], [exit |-> 1, err |-> FALSE],
                 [exit |-> -1, err |-> TRUE]}

\* `if err != nil || exit != 0`
ExecFailed_IgnoreExit(r) == r.err
ExecFailed(r) == r.err \/ r.exit # 0

\* http.Get: a transport error, or a response with a status code
HttpOutcomes == {[err |-> TRUE, status |-> 0], [err |-> FALSE, status |-> 200],
                 [err |-> FALSE, status |-> 404]}

VARIABLES
    pc,          \* position of the build in compileProject ("exited": os.Exit(1))
    build,       \* number of the current `virus compile` process
    config,      \* Config.Dependencies of the project
    exitCode,    \* -1 while running, 0 after compileProject returned, 1 after os.Exit(1)
    failure,     \* the error reported before os.Exit(1), "" if none
    tempDir,     \* root of the directory made by os.MkdirTemp, NoRoot before
    hostDirs,    \* temporary directories that exist on the host
    files,       \* artifact files on the host: path -> [status, full]
    hostExe,     \* the executable in the host's bin directory: [from, to]
    netLog,      \* artifact transfers begun (responses received), over all builds;
                 \* complete once io.Copy returned without error
    session,     \* container state: "none", "Created", "Running", "Stopped", "Removed"
    apiLog,      \* podman API calls of this build, in order (execs are in execLog)
    execLog,     \* execInContainer calls of this build: [argv, exit, err]
    todo,        \* dependencies the range loop has not visited yet
    cur,         \* name of the dependency being processed, "" if none
    curVer,      \* index in the library's versions of the resolved version
    resp,        \* status of the current HTTP response, 0 if none
    depPaths,    \* depPaths slice
    objectFiles, \* objectFilesContainer slice
    diag         \* source paths handed to handleError

procVars == <<pc, exitCode, failure, tempDir, diag>>
hostVars == <<hostDirs, files, hostExe, netLog>>
boxVars == <<session, apiLog, execLog>>
loopVars == <<todo, cur, curVer, resp, depPaths, objectFiles>>
bvars == <<pc, build, config, exitCode, failure, tempDir, hostDirs, files, hostExe,
           netLog, session, apiLog, execLog, todo, cur, curVer, resp, depPaths,
           objectFiles, diag>>

VARIABLES
    rVersions,   \* resolver: the versions slice passed in
    rSpec,       \* resolver: the spec passed in
    rResult      \* resolver: -1 before the call, then the returned index (0 = nil)

rvars == <<rVersions, rSpec, rResult>>

(***************************************************************************)
(* State of the host-only compileProject of src/cmd/main.go (lines         *)
(* 405-531), run by several processes in one project directory: they share *)
(* the persistent directory .virus_deps.                                   *)
(***************************************************************************)
VARIABLES
    cpc,         \* per process: its position
    cTodo,       \* per process: dependencies its range loop has not visited
    cCur,        \* per process: name of the dependency being processed
    cVer,        \* per process: index of the resolved version
    cResp,       \* per process: status of its current HTTP response
    cInc,        \* per process: includePaths slice
    cFiles,      \* files under .virus_deps: path -> [status, full, writers]
    cNet,        \* artifact transfers begun, over all processes
    cReads       \* reads of dependency files by a process's preprocessor

cvars == <<cpc, cTodo, cCur, cVer, cResp, cInc, cFiles, cNet, cReads>>

(***************************************************************************)
(* State of one call of handleError (src/source/main.go lines 536-564).    *)
(* A text is a tuple of one-character strings.                             *)
(***************************************************************************)
VARIABLES
    hpc,         \* position of the call: "idle", "call", "returned"
    hErrorMsg,   \* the errorMsg argument: the output of the failed stage
    hArgv,       \* --message, --line and --column given to the diagnostic tool
    hDiag,       \* result of CombinedOutput of the diagnostic tool: [err, out]
    hPrinted     \* what the call has printed: a sequence of [level, text]

hvars == <<hpc, hErrorMsg, hArgv, hDiag, hPrinted>>

(***************************************************************************)
(* State of the library manager of src/cmd/main.go (lines 1-236): the      *)
(* commands install, list and remove, run one after the other on one host. *)
(***************************************************************************)
VARIABLES
    iFiles,      \* entries of libsDir: name -> [dir, lib, version, url, full]
    iLast,       \* the last command: its arguments and what it did
    iCount       \* number of commands run so far

ivars == <<iFiles, iLast, iCount>>

\* the variables no step of a build changes
nonBuild == <<rvars, cvars, hvars, ivars>>

(***************************************************************************)
(* compileProject of src/source/main.go, one action per call that can fail *)
(* or block.  os.Exit(1) ends the process at once: Go runs no deferred     *)
(* function on os.Exit, so Exit changes nothing but the process state.     *)
(***************************************************************************)
Exit(reason) ==
    /\ pc' = "exited"
    /\ exitCode' = 1
    /\ failure' = reason

Goto(next) ==
    /\ pc' = next
    /\ UNCHANGED <<exitCode, failure>>

\* a call whose only effect on the model is that it may fail
Step(at, next, reason) ==
    /\ pc = at
    /\ \/ Exit(reason)
       \/ Goto(next)

Put(f, k, v) == [x \in DOMAIN f \cup {k} |-> IF x = k THEN v ELSE f[x]]

CurLib == Index[findLibrary(Index, cur)]
CurVersion == CurLib.versions[curVer]
CurDepPath == DepPath(tempDir, cur, CurVersion.version)
CurFileName == Base(CurVersion.url)
CurTarget == JoinFile(CurDepPath, CurFileName)

LoadConfig ==
    /\ Step("loadConfig", "mkdirTemp", "loadConfig")
    /\ UNCHANGED <<nonBuild, build, config, tempDir, diag, hostVars, boxVars, loopVars>>

MkdirTemp ==
    /\ pc = "mkdirTemp"
    /\ \/ /\ Exit("Failed to create temp dir")
          /\ UNCHANGED <<tempDir, hostDirs>>
       \/ /\ Goto("populate")
          /\ tempDir' = TempRoot(build)
          /\ hostDirs' = hostDirs \cup {TempRoot(build)}
    /\ UNCHANGED <<nonBuild, build, config, diag, files, hostExe, netLog, boxVars, loopVars>>

\* findProjectFile, copyFile, copyDir, os.MkdirAll(depsDirTemp)
Populate ==
    /\ Step("populate", "downloadIndex", "Failed to copy project")
    /\ UNCHANGED <<nonBuild, build, config, tempDir, diag, hostVars, boxVars, loopVars>>

DownloadIndex ==
    /\ Step("downloadIndex", "connect", "Failed to download index")
    /\ UNCHANGED <<nonBuild, build, config, tempDir, diag, hostVars, boxVars, loopVars>>

Connect ==
    /\ Step("connect", "pull", "Failed to connect to Podman")
    /\ UNCHANGED <<nonBuild, build, config, tempDir, diag, hostVars, boxVars, loopVars>>

Api(op, ok) == [op |-> op, ok |-> ok]

Pull ==
    /\ pc = "pull"
    /\ \/ /\ Exit("Failed to pull Wolfi image")
          /\ apiLog' = Append(apiLog, Api("pull", FALSE))
       \/ /\ Goto("create")
          /\ apiLog' = Append(apiLog, Api("pull", TRUE))
    /\ UNCHANGED <<nonBuild, build, config, tempDir, diag, hostVars, session, execLog, loopVars>>

CreateWithSpec ==
    /\ pc = "create"
    /\ \/ /\ Exit("Failed to create container")
          /\ apiLog' = Append(apiLog, Api("create", FALSE))
          /\ UNCHANGED session
       \/ /\ Goto("start")
          /\ apiLog' = Append(apiLog, Api("create", TRUE))
          /\ session' = "Created"
    /\ UNCHANGED <<nonBuild, build, config, tempDir, diag, hostVars, execLog, loopVars>>

\* a Start whose error is printed but does not end the build
Start_IgnoreError ==
    /\ pc = "start"
    /\ \/ /\ Goto("apkUpdate")
          /\ apiLog' = Append(apiLog, Api("start", FALSE))
          /\ UNCHANGED session
       \/ /\ Goto("apkUpdate")
          /\ apiLog' = Append(apiLog, Api("start", TRUE))
          /\ session' = "Running"
    /\ UNCHANGED <<nonBuild, build, config, tempDir, diag, hostVars, execLog, loopVars>>

\* a successful Start is followed by the registration of the deferred Stop/Remove
Start ==
    /\ pc = "start"
    /\ \/ /\ Exit("Failed to start container")
          /\ apiLog' = Append(apiLog, Api("start", FALSE))
          /\ UNCHANGED session
       \/ /\ Goto("apkUpdate")
          /\ apiLog' = Append(apiLog, Api("start", TRUE))
          /\ session' = "Running"
    /\ UNCHANGED <<nonBuild, build, config, tempDir, diag, hostVars, execLog, loopVars>>

Exec(argv, r) == [argv |-> argv, exit |-> r.exit, err |-> r.err]

Apk(at, argv, next, reason) ==
    /\ pc = at
    /\ \E r \in ExecOutcomes :
          /\ execLog' = Append(execLog, Exec(argv, r))
          /\ IF ExecFailed(r) THEN Exit(reason) ELSE Goto(next)
    /\ UNCHANGED <<nonBuild, build, config, tempDir, diag, hostVars, session, apiLog, loopVars>>

ApkUpdate ==
    /\ pc = "apkUpdate"
    /\ Apk("apkUpdate", <<Word("apk"), Word("update")>>, "apkAdd", "apk update failed")

ApkAdd ==
    /\ pc = "apkAdd"
    /\ Apk("apkAdd",
           <<Word("apk"), Word("add"), Word("--no-cache"), Word("build-base"),
             Word("gcc"), Word("g++")>>,
           "depLoop", "apk add failed")

\* a resolver that treats a missing library as a library without versions
DepResolve_OneError ==
    /\ pc = "depLoop"
    /\ \E name \in todo :
          LET li == findLibrary(Index, name)
              vi == IF li = 0 THEN 0 ELSE resolveVersion(Index[li].versions, config[name])
          IN  /\ cur' = name
              /\ curVer' = vi
              /\ todo' = todo \ {name}
              /\ IF vi = 0 THEN Exit("No matching version")
                 ELSE Goto("mkdirDep")
    /\ UNCHANGED <<nonBuild, build, config, tempDir, diag, hostVars, boxVars, resp, depPaths,
                   objectFiles>>

\* one iteration of `range config.Dependencies` up to resolveVersion; Go
\* leaves the order of a map's iteration unspecified
DepResolve ==
    /\ pc = "depLoop"
    /\ \E name \in todo :
          LET li == findLibrary(Index, name)
              vi == IF li = 0 THEN 0 ELSE resolveVersion(Index[li].versions, config[name])
          IN  /\ cur' = name
              /\ curVer' = vi
              /\ todo' = todo \ {name}
              /\ IF li = 0 THEN Exit("Library not found")
                 ELSE IF vi = 0 THEN Exit("No matching version")
                 ELSE Goto("mkdirDep")
    /\ UNCHANGED <<nonBuild, build, config, tempDir, diag, hostVars, boxVars, resp, depPaths,
                   objectFiles>>

DepMkdir ==
    /\ Step("mkdirDep", "stat", "Failed to create dep path")
    /\ UNCHANGED <<nonBuild, build, config, tempDir, diag, hostVars, boxVars, loopVars>>

\* the stage a unit of that extension starts with, "" if it is not compiled
\* every other extension is taken for C
FirstStage_OtherAsC(ext) ==
    CASE ext = ".vira" -> "pre"
      [] ext = ".c" -> "gcc"
      [] ext = ".cpp" -> "gpp"
      [] OTHER -> "gcc"

FirstStage(ext) ==
    CASE ext = ".vira" -> "pre"
      [] ext = ".c" -> "gcc"
      [] ext = ".cpp" -> "gpp"
      [] OTHER -> ""

\* lines 273-282: record the dependency directory, then compile by extension
AfterFetch ==
    LET ext == ToLower(Ext(CurFileName))
    IN  /\ depPaths' = Append(depPaths, CurDepPath)
        /\ Goto(IF FirstStage(ext) = "" THEN "depLoop" ELSE FirstStage(ext))

\* os.Stat(targetFile): the download is skipped when the file exists
DepStat ==
    /\ pc = "stat"
    /\ IF CurTarget \in DOMAIN files
       THEN AfterFetch
       ELSE Goto("httpGet") /\ UNCHANGED depPaths
    /\ UNCHANGED <<nonBuild, build, config, tempDir, diag, hostVars, boxVars, todo, cur, curVer,
                   resp, objectFiles>>

\* downloadWithProgress: http.Get; the status code of the response is not read
DownloadGet ==
    /\ pc = "httpGet"
    /\ \E o \in HttpOutcomes :
          IF o.err
          THEN Exit("Failed to download") /\ UNCHANGED <<resp, netLog>>
          ELSE /\ Goto("osCreate")
               /\ resp' = o.status
               /\ netLog' = Append(netLog, [build |-> build, name |-> cur,
                                            version |-> CurVersion.version,
                                            status |-> o.status, complete |-> FALSE])
    /\ UNCHANGED <<nonBuild, build, config, tempDir, diag, hostDirs, files, hostExe, boxVars,
                   todo, cur, curVer, depPaths, objectFiles>>

\* downloadWithProgress: os.Create(target) makes the empty file at the target
DownloadCreate ==
    /\ pc = "osCreate"
    /\ \/ Exit("Failed to download") /\ UNCHANGED files
       \/ /\ Goto("ioCopy")
          /\ files' = Put(files, CurTarget, [status |-> resp, full |-> FALSE])
    /\ UNCHANGED <<nonBuild, build, config, tempDir, diag, hostDirs, hostExe, netLog, boxVars,
                   loopVars>>

\* downloadWithProgress: io.Copy of the body into the file, then lines 273-282
DownloadCopy ==
    /\ pc = "ioCopy"
    /\ \/ Exit("Failed to download") /\ UNCHANGED <<files, netLog, depPaths>>
       \/ /\ files' = [files EXCEPT ![CurTarget].full = TRUE]
          /\ netLog' = [netLog EXCEPT ![Len(netLog)].complete = TRUE]
          /\ AfterFetch
    /\ UNCHANGED <<nonBuild, build, config, tempDir, diag, hostDirs, hostExe, boxVars,
                   todo, cur, curVer, resp, objectFiles>>

\* the loop is over: the main unit is compiled next
DepLoopEnd ==
    /\ pc = "depLoop"
    /\ todo = {}
    /\ cur' = ""
    /\ curVer' = 0
    /\ Goto("pre")
    /\ UNCHANGED <<nonBuild, build, config, tempDir, diag, hostVars, boxVars, todo, resp, depPaths,
                   objectFiles>>

(***************************************************************************)
(* compileSourceInContainer for the current unit: the dependency cur, or   *)
(* the main unit when cur = "".                                            *)
(***************************************************************************)
MainInput == MkPath(WorkRoot, <<"src">>, <<"main", ".vira">>)
MainO == MkPath(WorkRoot, <<>>, <<"main", ".o">>)

UnitInput == IF cur = "" THEN MainInput ELSE ReplaceRoot(CurTarget, tempDir, WorkRoot)

\* the object path of a dependency unit left as the host path
UnitOutput_HostPath ==
    IF cur = "" THEN MainO
    ELSE JoinFile(CurDepPath, <<"lib", ".o">>)

UnitOutput ==
    IF cur = "" THEN MainO
    ELSE JoinFile(ReplaceRoot(CurDepPath, tempDir, WorkRoot), <<"lib", ".o">>)

\* include flags built from the host directories, without the translation
UnitFlags_HostPaths ==
    IF cur = ""
    THEN [i \in 1..Len(depPaths) |-> Incl(depPaths[i])]
    ELSE <<>>

UnitFlags ==
    IF cur = ""
    THEN [i \in 1..Len(depPaths) |-> Incl(ReplaceRoot(depPaths[i], tempDir, WorkRoot))]
    ELSE <<>>

PreOut == [UnitInput EXCEPT !.suffix = ".pre"]

\* one stage: the exec, then handleError and the error return (which the
\* caller answers with os.Exit(1)) or the next stage; after a unit's last
\* stage the caller appends the object and goes on
\* a stage whose unit's object is put in front of the object list
Stage_Prepend(at, argv, input, next, reason) ==
    /\ pc = at
    /\ \E r \in ExecOutcomes :
          /\ execLog' = Append(execLog, Exec(argv, r))
          /\ IF ExecFailed(r)
             THEN /\ Exit(reason)
                  /\ diag' = Append(diag, ReplaceRoot(input, WorkRoot, tempDir))
                  /\ UNCHANGED objectFiles
             ELSE /\ UNCHANGED diag
                  /\ IF next = ""
                     THEN /\ objectFiles' = <<UnitOutput>> \o objectFiles
                          /\ Goto(IF cur = "" THEN "link" ELSE "depLoop")
                     ELSE /\ Goto(next)
                          /\ UNCHANGED objectFiles
    /\ UNCHANGED <<nonBuild, build, config, tempDir, hostVars, session, apiLog, todo, cur, curVer,
                   resp, depPaths>>

Stage(at, argv, input, next, reason) ==
    /\ pc = at
    /\ \E r \in ExecOutcomes :
          /\ execLog' = Append(execLog, Exec(argv, r))
          /\ IF ExecFailed(r)
             THEN /\ Exit(reason)
                  /\ diag' = Append(diag, ReplaceRoot(input, WorkRoot, tempDir))
                  /\ UNCHANGED objectFiles
             ELSE /\ UNCHANGED diag
                  /\ IF next = ""
                     THEN /\ objectFiles' = Append(objectFiles, UnitOutput)
                          /\ Goto(IF cur = "" THEN "link" ELSE "depLoop")
                     ELSE /\ Goto(next)
                          /\ UNCHANGED objectFiles
    /\ UNCHANGED <<nonBuild, build, config, tempDir, hostVars, session, apiLog, todo, cur, curVer,
                   resp, depPaths>>

\* the code generator right after the preprocessor, without the checker
Preprocess_SkipCheck ==
    /\ pc = "pre"
    /\ Stage("pre",
             <<Word("preprocessor")>> \o UnitFlags \o <<File(UnitInput), File(PreOut)>>,
             UnitInput, "comp", "preprocess failed")

Preprocess ==
    /\ pc = "pre"
    /\ Stage("pre",
             <<Word("preprocessor")>> \o UnitFlags \o <<File(UnitInput), File(PreOut)>>,
             UnitInput, "plsa", "preprocess failed")

\* the checker's failure reported with the unit's source, not its input
Plsa_DiagSource ==
    /\ pc = "plsa"
    /\ Stage("plsa", <<Word("plsa"), File(PreOut)>>, UnitInput, "comp", "plsa failed")

Plsa ==
    /\ pc = "plsa"
    /\ Stage("plsa", <<Word("plsa"), File(PreOut)>>, PreOut, "comp", "plsa failed")

Compiler ==
    /\ pc = "comp"
    /\ Stage("comp", <<Word("compiler"), File(PreOut), File(UnitOutput)>>, PreOut, "",
             "compile failed")

Gcc ==
    /\ pc = "gcc"
    /\ Stage("gcc",
             <<Word("gcc"), Word("-c")>> \o UnitFlags
                 \o <<File(UnitInput), Word("-o"), File(UnitOutput)>>,
             UnitInput, "", "gcc failed")

Gpp ==
    /\ pc = "gpp"
    /\ Stage("gpp",
             <<Word("g++"), Word("-c")>> \o UnitFlags
                 \o <<File(UnitInput), Word("-o"), File(UnitOutput)>>,
             UnitInput, "", "g++ failed")

OutputExe == MkPath(WorkRoot, <<"bin">>, <<PackageName, "">>)

\* the build goes on to the host copy whatever the link returned
Link_ContinueOnFailure ==
    /\ pc = "link"
    /\ \E r \in ExecOutcomes :
          /\ execLog' = Append(execLog,
                Exec(<<Word("gcc")>> \o [i \in 1..Len(objectFiles) |-> File(objectFiles[i])]
                        \o <<Word("-o"), File(OutputExe)>>, r))
          /\ Goto("mkdirBin")
    /\ UNCHANGED <<nonBuild, build, config, tempDir, diag, hostVars, session, apiLog, loopVars>>

Link ==
    /\ pc = "link"
    /\ \E r \in ExecOutcomes :
          /\ execLog' = Append(execLog,
                Exec(<<Word("gcc")>> \o [i \in 1..Len(objectFiles) |-> File(objectFiles[i])]
                        \o <<Word("-o"), File(OutputExe)>>, r))
          /\ IF ExecFailed(r) THEN Exit("Linking failed") ELSE Goto("mkdirBin")
    /\ UNCHANGED <<nonBuild, build, config, tempDir, diag, hostVars, session, apiLog, loopVars>>

MkdirBin ==
    /\ Step("mkdirBin", "copyExe", "Failed to create bin")
    /\ UNCHANGED <<nonBuild, build, config, tempDir, diag, hostVars, boxVars, loopVars>>

\* runtime.GOOS of the build of the tool
GOOS == {"linux", "windows"}

\* no executable in the host's bin directory
NoExe == [from |-> NoPath, to |-> NoPath]

\* filepath.Join(tempDir, "bin", config.Package.Name)
ExeInWorkspace == MkPath(tempDir, <<"bin">>, <<PackageName, "">>)

\* filepath.Join("bin", config.Package.Name), with ".exe" on windows
LocalExe(goos) ==
    [MkPath(CwdRoot, <<"bin">>, <<PackageName, "">>)
        EXCEPT !.suffix = IF goos = "windows" THEN ".exe" ELSE ""]

\* the build goes on although nothing was copied
CopyExe_NoCopy ==
    /\ pc = "copyExe"
    /\ \/ Exit("Failed to copy executable") /\ UNCHANGED hostExe
       \/ Goto("deferStop") /\ UNCHANGED hostExe
    /\ UNCHANGED <<nonBuild, build, config, tempDir, diag, hostDirs, files, netLog, boxVars,
                   loopVars>>

\* copyFile(tempDir/bin/<name>, localExe)
CopyExe ==
    /\ pc = "copyExe"
    /\ \/ Exit("Failed to copy executable") /\ UNCHANGED hostExe
       \/ /\ Goto("deferStop")
          /\ \E goos \in GOOS :
                hostExe' = [from |-> ExeInWorkspace, to |-> LocalExe(goos)]
    /\ UNCHANGED <<nonBuild, build, config, tempDir, diag, hostDirs, files, netLog, boxVars,
                   loopVars>>

\* compileProject returns: the deferred calls run, last registered first
DeferStop ==
    /\ pc = "deferStop"
    /\ Goto("deferRemove")
    /\ apiLog' = Append(apiLog, Api("stop", TRUE))
    /\ session' = "Stopped"
    /\ UNCHANGED <<nonBuild, build, config, tempDir, diag, hostVars, execLog, loopVars>>

DeferRemove ==
    /\ pc = "deferRemove"
    /\ Goto("deferRemoveAll")
    /\ apiLog' = Append(apiLog, Api("remove", TRUE))
    /\ session' = "Removed"
    /\ UNCHANGED <<nonBuild, build, config, tempDir, diag, hostVars, execLog, loopVars>>

DeferRemoveAll ==
    /\ pc = "deferRemoveAll"
    /\ pc' = "done"
    /\ exitCode' = 0
    /\ hostDirs' = hostDirs \ {tempDir}
    /\ files' = [p \in {q \in DOMAIN files : q.root # tempDir} |-> files[p]]
    /\ UNCHANGED <<nonBuild, build, config, failure, tempDir, diag, hostExe, netLog, boxVars,
                   loopVars>>

Ended == pc \in {"done", "exited"}

\* the next `virus compile` of the same project on the same host
NewBuild ==
    /\ Ended
    /\ build < MaxBuilds
    /\ build' = build + 1
    /\ pc' = "loadConfig"
    /\ exitCode' = -1
    /\ failure' = ""
    /\ tempDir' = NoRoot
    /\ diag' = <<>>
    /\ session' = "none"
    /\ apiLog' = <<>>
    /\ execLog' = <<>>
    /\ todo' = DOMAIN config
    /\ cur' = ""
    /\ curVer' = 0
    /\ resp' = 0
    /\ depPaths' = <<>>
    /\ objectFiles' = <<>>
    /\ UNCHANGED <<nonBuild, config, hostVars>>

BuildInit ==
    /\ pc = "loadConfig"
    /\ build = 1
    /\ config \in Configs
    /\ exitCode = -1
    /\ failure = ""
    /\ tempDir = NoRoot
    /\ hostDirs = {}
    /\ files = <<>>
    /\ hostExe = NoExe
    /\ netLog = <<>>
    /\ session = "none"
    /\ apiLog = <<>>
    /\ execLog = <<>>
    /\ todo = DOMAIN config
    /\ cur = ""
    /\ curVer = 0
    /\ resp = 0
    /\ depPaths = <<>>
    /\ objectFiles = <<>>
    /\ diag = <<>>

BuildNext ==
    \/ LoadConfig \/ MkdirTemp \/ Populate \/ DownloadIndex \/ Connect \/ Pull
    \/ CreateWithSpec \/ Start \/ ApkUpdate \/ ApkAdd
    \/ DepResolve \/ DepMkdir \/ DepStat \/ DownloadGet \/ DownloadCreate \/ DownloadCopy
    \/ DepLoopEnd \/ Preprocess \/ Plsa \/ Compiler \/ Gcc \/ Gpp
    \/ Link \/ MkdirBin \/ CopyExe \/ DeferStop \/ DeferRemove \/ DeferRemoveAll

(***************************************************************************)
(* compileProject of src/cmd/main.go, process p.  The dependency files go  *)
(* to .virus_deps below the working directory and stay there.              *)
(***************************************************************************)
MaxProcs == 2
Procs == 1..MaxProcs

\* the manifests of the concurrent runs: at most MaxCmdDeps dependencies
MaxCmdDeps == 1
CmdConfigs == {c \in Configs : Cardinality(DOMAIN c) <= MaxCmdDeps}

CmdGoto(p, next) == cpc' = [cpc EXCEPT ![p] = next]
CmdExit(p) == cpc' = [cpc EXCEPT ![p] = "exited"]

CmdStep(p, at, next) ==
    /\ cpc[p] = at
    /\ \/ CmdExit(p)
       \/ CmdGoto(p, next)

CmdVersion(p) == Index[findLibrary(Index, cCur[p])].versions[cVer[p]]
CmdDepPath(p) == DepPath(CwdRoot, cCur[p], CmdVersion(p).version)
CmdTarget(p) == JoinFile(CmdDepPath(p), Base(CmdVersion(p).url))

\* loadConfig, downloadIndex, os.MkdirAll(depsDir)
CmdSetup(p) ==
    /\ CmdStep(p, "setup", "depLoop")
    /\ UNCHANGED <<bvars, rvars, hvars, ivars, cTodo, cCur, cVer, cResp, cInc, cFiles, cNet, cReads>>

CmdDepResolve(p) ==
    /\ cpc[p] = "depLoop"
    /\ \E name \in cTodo[p] :
          LET li == findLibrary(Index, name)
              vi == IF li = 0 THEN 0 ELSE resolveVersion(Index[li].versions, config[name])
          IN  /\ cCur' = [cCur EXCEPT ![p] = name]
              /\ cVer' = [cVer EXCEPT ![p] = vi]
              /\ cTodo' = [cTodo EXCEPT ![p] = @ \ {name}]
              /\ IF li = 0 \/ vi = 0 THEN CmdExit(p) ELSE CmdGoto(p, "mkdirDep")
    /\ UNCHANGED <<bvars, rvars, hvars, ivars, cResp, cInc, cFiles, cNet, cReads>>

CmdDepMkdir(p) ==
    /\ CmdStep(p, "mkdirDep", "stat")
    /\ UNCHANGED <<bvars, rvars, hvars, ivars, cTodo, cCur, cVer, cResp, cInc, cFiles, cNet, cReads>>

\* os.Stat(targetFile); when the file exists the path is appended at once
CmdDepStat(p) ==
    /\ cpc[p] = "stat"
    /\ IF CmdTarget(p) \in DOMAIN cFiles
       THEN /\ CmdGoto(p, "depLoop")
            /\ cInc' = [cInc EXCEPT ![p] = Append(@, CmdDepPath(p))]
       ELSE /\ CmdGoto(p, "httpGet")
            /\ UNCHANGED cInc
    /\ UNCHANGED <<bvars, rvars, hvars, ivars, cTodo, cCur, cVer, cResp, cFiles, cNet, cReads>>

CmdDownloadGet(p) ==
    /\ cpc[p] = "httpGet"
    /\ \E o \in HttpOutcomes :
          IF o.err
          THEN CmdExit(p) /\ UNCHANGED <<cResp, cNet>>
          ELSE /\ CmdGoto(p, "osCreate")
               /\ cResp' = [cResp EXCEPT ![p] = o.status]
               /\ cNet' = Append(cNet, [proc |-> p, name |-> cCur[p],
                                        version |-> CmdVersion(p).version,
                                        status |-> o.status])
    /\ UNCHANGED <<bvars, rvars, hvars, ivars, cTodo, cCur, cVer, cInc, cFiles, cReads>>

\* os.Create(target): creates the file or truncates the one that is there
CmdDownloadCreate(p) ==
    /\ cpc[p] = "osCreate"
    /\ \/ CmdExit(p) /\ UNCHANGED cFiles
       \/ /\ CmdGoto(p, "ioCopy")
          /\ cFiles' = Put(cFiles, CmdTarget(p),
                [status |-> cResp[p], full |-> FALSE,
                 writers |-> {p} \cup (IF CmdTarget(p) \in DOMAIN cFiles
                                       THEN cFiles[CmdTarget(p)].writers ELSE {})])
    /\ UNCHANGED <<bvars, rvars, hvars, ivars, cTodo, cCur, cVer, cResp, cInc, cNet, cReads>>

\* io.Copy, f.Close; a failed copy leaves the file as far as it was written
CmdDownloadCopy(p) ==
    /\ cpc[p] = "ioCopy"
    /\ \/ /\ CmdExit(p)
          /\ cFiles' = [cFiles EXCEPT ![CmdTarget(p)].writers = @ \ {p}]
          /\ UNCHANGED cInc
       \/ /\ CmdGoto(p, "depLoop")
          /\ cFiles' = [cFiles EXCEPT ![CmdTarget(p)].writers = @ \ {p},
                                      ![CmdTarget(p)].full = TRUE]
          /\ cInc' = [cInc EXCEPT ![p] = Append(@, CmdDepPath(p))]
    /\ UNCHANGED <<bvars, rvars, hvars, ivars, cTodo, cCur, cVer, cResp, cNet, cReads>>

\* files below the directories of includePaths, as the preprocessor finds them
CmdIncluded(p) ==
    {f \in DOMAIN cFiles : \E i \in 1..Len(cInc[p]) : JoinFile(f, <<>>) = cInc[p][i]}

\* the preprocessor runs with one -I per include path and reads below them
CmdPreprocess(p) ==
    /\ cpc[p] = "preprocess"
    /\ cReads' = cReads \cup
          {[proc |-> p, path |-> f, writers |-> cFiles[f].writers] : f \in CmdIncluded(p)}
    /\ \/ CmdExit(p)
       \/ CmdGoto(p, "plsa")
    /\ UNCHANGED <<bvars, rvars, hvars, ivars, cTodo, cCur, cVer, cResp, cInc, cFiles, cNet>>

CmdDepLoopEnd(p) ==
    /\ cpc[p] = "depLoop"
    /\ cTodo[p] = {}
    /\ CmdGoto(p, "preprocess")
    /\ UNCHANGED <<bvars, rvars, hvars, ivars, cTodo, cCur, cVer, cResp, cInc, cFiles, cNet, cReads>>

CmdPlsa(p) ==
    /\ CmdStep(p, "plsa", "compiler")
    /\ UNCHANGED <<bvars, rvars, hvars, ivars, cTodo, cCur, cVer, cResp, cInc, cFiles, cNet, cReads>>

CmdCompiler(p) ==
    /\ CmdStep(p, "compiler", "link")
    /\ UNCHANGED <<bvars, rvars, hvars, ivars, cTodo, cCur, cVer, cResp, cInc, cFiles, cNet, cReads>>

\* os.MkdirAll("bin"), then the linker
CmdLink(p) ==
    /\ CmdStep(p, "link", "done")
    /\ UNCHANGED <<bvars, rvars, hvars, ivars, cTodo, cCur, cVer, cResp, cInc, cFiles, cNet, cReads>>

CmdInit ==
    /\ cpc = [p \in Procs |-> "setup"]
    /\ cTodo = [p \in Procs |-> DOMAIN config]
    /\ cCur = [p \in Procs |-> ""]
    /\ cVer = [p \in Procs |-> 0]
    /\ cResp = [p \in Procs |-> 0]
    /\ cInc = [p \in Procs |-> <<>>]
    /\ cFiles = <<>>
    /\ cNet = <<>>
    /\ cReads = {}

CmdIdle ==
    /\ cpc = <<>>
    /\ cTodo = <<>>
    /\ cCur = <<>>
    /\ cVer = <<>>
    /\ cResp = <<>>
    /\ cInc = <<>>
    /\ cFiles = <<>>
    /\ cNet = <<>>
    /\ cReads = {}

CmdNext ==
    \E p \in Procs :
        \/ CmdSetup(p) \/ CmdDepResolve(p) \/ CmdDepMkdir(p) \/ CmdDepStat(p)
        \/ CmdDownloadGet(p) \/ CmdDownloadCreate(p) \/ CmdDownloadCopy(p)
        \/ CmdDepLoopEnd(p) \/ CmdPreprocess(p) \/ CmdPlsa(p) \/ CmdCompiler(p)
        \/ CmdLink(p)

\* the resolver's variables while a build runs, the build's while resolving
ResolveIdle == rVersions = <<>> /\ rSpec = <<"*">> /\ rResult = -1

BuildIdle ==
    /\ pc = "idle"
    /\ build = 0
    /\ config = <<>>
    /\ exitCode = -1
    /\ failure = ""
    /\ tempDir = NoRoot
    /\ hostDirs = {}
    /\ files = <<>>
    /\ hostExe = NoExe
    /\ netLog = <<>>
    /\ session = "none"
    /\ apiLog = <<>>
    /\ execLog = <<>>
    /\ todo = {}
    /\ cur = ""
    /\ curVer = 0
    /\ resp = 0
    /\ depPaths = <<>>
    /\ objectFiles = <<>>
    /\ diag = <<>>

(***************************************************************************)
(* handleError (src/source/main.go lines 536-564; src/cmd/main.go lines    *)
(* 659-692 is the same code).                                              *)
(***************************************************************************)
MaxDigits == 1

KwLine == <<"l", "i", "n", "e">>
KwColumn == <<"c", "o", "l", "u", "m", "n">>

Digits == {"3", "5"}

Numerals == UNION {[1..n -> Digits] : n \in 1..MaxDigits} \cup {<<"3", "5">>}

\* first lines of stage outputs: with and without a position, at the start
\* or after other text, complete or cut short
Messages ==
    {lead \o w1 \o gap \o n1 \o sep \o w2 \o <<" ">> \o n2 \o tail :
        lead \in {<<>>, <<"e", ":", " ">>},
        w1 \in {KwLine, <<"l", "i", "n">>},
        gap \in {<<>>, <<" ">>},
        n1 \in Numerals \cup {<<>>, <<"-", "3">>},
        sep \in {<<",", " ">>, <<",">>, <<":", " ">>},
        w2 \in {KwColumn, <<"c", "o", "l">>},
        n2 \in Numerals \cup {<<>>},
        tail \in {<<>>, <<":", " ", "x">>}}

\* outputs of a failed stage: one line, or more
ErrorMsgs == {m \o rest : m \in Messages \cup {<<>>}, rest \in {<<>>, <<"\n", "x">>}}

\* what the diagnostic tool wrote
Rendered == <<"^">>
Usage == <<"u", "s", "a", "g", "e">>

\* cmdDiag.CombinedOutput(): the tool ran and rendered, it could not be
\* started, or it exited with an error after writing something
DiagOutcomes ==
    {[err |-> FALSE, out |-> Rendered],
     [err |-> TRUE, out |-> <<>>],
     [err |-> TRUE, out |-> Usage]}

Least(S) == CHOOSE x \in S : \A y \in S : x <= y

\* strings.Split(errorMsg, "\n")[0]
FirstLine(s) ==
    SubSeq(s, 1, Least({j \in 1..(Len(s) + 1) : j = Len(s) + 1 \/ s[j] = "\n"}) - 1)

\* strings.Contains(s, sub)
Contains(s, sub) ==
    \E k \in 1..(Len(s) - Len(sub) + 1) : SubSeq(s, k, k + Len(sub) - 1) = sub

IsSpace(c) == c \in {" ", "\t", "\r"}

IsDigit(c) == c \in {"0", "1", "2", "3", "4", "5", "6", "7", "8", "9"}

DigitValue(c) ==
    CASE c = "0" -> 0 [] c = "1" -> 1 [] c = "2" -> 2 [] c = "3" -> 3 [] c = "4" -> 4
      [] c = "5" -> 5 [] c = "6" -> 6 [] c = "7" -> 7 [] c = "8" -> 8 [] c = "9" -> 9

RECURSIVE Decimal(_)
Decimal(d) ==
    IF d = <<>> THEN 0
    ELSE 10 * Decimal(SubSeq(d, 1, Len(d) - 1)) + DigitValue(d[Len(d)])

\* the scanner skips spaces: the first index from i on that holds none
SkipSpace(s, i) == Least({j \in i..(Len(s) + 1) : j = Len(s) + 1 \/ ~IsSpace(s[j])})

\* literal text of the format: the index after it, 0 when the input differs
\* or ends
Literal(s, i, lit) ==
    IF i + Len(lit) - 1 <= Len(s) /\ SubSeq(s, i, i + Len(lit) - 1) = lit
    THEN i + Len(lit)
    ELSE 0

\* a space of the format: one or more spaces of the input, or its end
FormatSpace(s, i) ==
    IF i > Len(s) THEN i
    ELSE IF IsSpace(s[i]) THEN SkipSpace(s, i)
    ELSE 0

NoInt == [ok |-> FALSE, value |-> 0, next |-> 0]

\* the verb %d: spaces, a sign, decimal digits (numerals of the model are
\* far below the width of int)
ScanInt(s, i) ==
    LET k == SkipSpace(s, i)
        signed == k <= Len(s) /\ s[k] \in {"+", "-"}
        d == IF signed THEN k + 1 ELSE k
        e == Least({j \in d..(Len(s) + 1) : j = Len(s) + 1 \/ ~IsDigit(s[j])})
        n == Decimal(SubSeq(s, d, e - 1))
    IN  IF e = d THEN NoInt
        ELSE [ok |-> TRUE, value |-> IF signed /\ s[k] = "-" THEN 0 - n ELSE n, next |-> e]

\* fmt.Sscanf(message, "line %d, column %d", &line, &column) with line and
\* column 1 before the call: the scan stops at the first mismatch and what
\* it has stored stays
Sscanf(s) ==
    LET a == Literal(s, 1, KwLine)
        b == IF a = 0 THEN 0 ELSE FormatSpace(s, a)
        L == IF b = 0 THEN NoInt ELSE ScanInt(s, b)
        c == IF L.ok THEN Literal(s, L.next, <<",">>) ELSE 0
        d == IF c = 0 THEN 0 ELSE FormatSpace(s, c)
        e == IF d = 0 THEN 0 ELSE Literal(s, d, KwColumn)
        f == IF e = 0 THEN 0 ELSE FormatSpace(s, e)
        C == IF f = 0 THEN NoInt ELSE ScanInt(s, f)
    IN  [line |-> IF L.ok THEN L.value ELSE 1, column |-> IF C.ok THEN C.value ELSE 1]

\* line and column of handleError for the message
Position(message) ==
    IF Contains(message, KwLine) THEN Sscanf(message) ELSE [line |-> 1, column |-> 1]

Banner == <<"Error occurred. Running diagnostic...">>

NoArgv == [message |-> <<>>, line |-> 0, column |-> 0]
NoDiag == [err |-> FALSE, out |-> <<>>]

handleError ==
    /\ hpc = "call"
    /\ hpc' = "returned"
    /\ hArgv' = [message |-> FirstLine(hErrorMsg),
                 line |-> Position(FirstLine(hErrorMsg)).line,
                 column |-> Position(FirstLine(hErrorMsg)).column]
    /\ \E r \in DiagOutcomes :
          /\ hDiag' = r
          /\ hPrinted' = <<[level |-> "error", text |-> Banner],
                           [level |-> IF r.err THEN "error" ELSE "info", text |-> r.out]>>
    /\ UNCHANGED <<bvars, rvars, cvars, ivars, hErrorMsg>>

DiagIdle ==
    /\ hpc = "idle"
    /\ hErrorMsg = <<>>
    /\ hArgv = NoArgv
    /\ hDiag = NoDiag
    /\ hPrinted = <<>>

DiagInit ==
    /\ hpc = "call"
    /\ hErrorMsg \in ErrorMsgs
    /\ hArgv = NoArgv
    /\ hDiag = NoDiag
    /\ hPrinted = <<>>

(***************************************************************************)
(* The library manager (src/cmd/main.go lines 1-236).  Library names,      *)
(* versions and file names are tuples of one-character strings.            *)
(***************************************************************************)
MaxCmds == 2

DotVira == <<".", "v", "i", "r", "a">>

\* the index the manager downloads
InstallIndex ==
    << [name |-> <<"a">>,
        versions |-> << [version |-> <<"1">>, url |-> "a/1"],
                        [version |-> <<"2">>, url |-> "a/2"] >>],
       [name |-> <<"a", "-", "b">>,
        versions |-> << [version |-> <<"1">>, url |-> "a-b/1"] >>],
       [name |-> <<"e">>, versions |-> << >>],
       [name |-> <<"d">>,
        versions |-> << [version |-> <<"1">>, url |-> "d/1"],
                        [version |-> <<"1">>, url |-> "d/1bis"] >>] >>

\* os.Args[2] of install and remove
InstallNames == {<<"a">>, <<"a", "-", "b">>, <<"e">>, <<"d">>, <<"z">>}

\* os.Args[3] of install: <<>> when it is not given
VersionArgs == {<<>>, <<"1">>, <<"2">>, <<"9">>}

\* downloadFile of the index, os.ReadFile, json.Unmarshal
IndexOutcomes == {"ok", "Failed to download index", "Failed to read index", "Invalid index"}

\* downloadFile(url, path): http.Get fails, the status is not 200,
\* os.Create fails, io.Copy fails, or all of them succeed
DownloadFileOutcomes == {"get", "status", "create", "copy", "ok"}

\* strings.HasSuffix(s, suffix)
HasSuffix(s, suffix) ==
    /\ Len(suffix) <= Len(s)
    /\ SubSeq(s, Len(s) - Len(suffix) + 1, Len(s)) = suffix

\* fmt.Sprintf("%s-%s.vira", libName, version)
LibFile(libName, version) == libName \o <<"-">> \o version \o DotVira

\* lib.Versions[0].Version instead of the last
LatestVersion_First(versions) == versions[1].version

\* lib.Versions[len(lib.Versions)-1].Version
LatestVersion(versions) == versions[Len(versions)].version

\* the loop over lib.Versions: index of the first entry with that version,
\* 0 when there is none
FindVersion(versions, version) ==
    IF \E k \in DOMAIN versions : versions[k].version = version
    THEN Least({k \in DOMAIN versions : versions[k].version = version})
    ELSE 0

NoFetch == [url |-> "", path |-> <<>>]

DirEntry == [dir |-> TRUE, lib |-> <<>>, version |-> <<>>, url |-> "", full |-> TRUE]

\* downloadFile(url, path) on the entries of libsDir; os.Create truncates
\* what is there and fails on a directory
DownloadFile(entries, libName, version, url, path, d) ==
    IF d \in {"get", "status", "create"} \/ (path \in DOMAIN entries /\ entries[path].dir)
    THEN entries
    ELSE Put(entries, path,
             [dir |-> FALSE, lib |-> libName, version |-> version, url |-> url,
              full |-> (d = "ok")])

\* installLib(libName, version): [msg, fetch, files]
Install(libName, version, io, d) ==
    LET li == findLibrary(InstallIndex, libName)
        versions == InstallIndex[li].versions
        wanted == IF version = <<>> THEN LatestVersion(versions) ELSE version
        vi == FindVersion(versions, wanted)
        ver == versions[vi]
        libPath == LibFile(libName, wanted)
        after == DownloadFile(iFiles, libName, wanted, ver.url, libPath, d)
    IN  IF io # "ok" THEN [msg |-> io, fetch |-> NoFetch, files |-> iFiles]
        ELSE IF li = 0 THEN [msg |-> "Library not found", fetch |-> NoFetch, files |-> iFiles]
        ELSE IF version = <<>> /\ Len(versions) = 0
             THEN [msg |-> "No versions available", fetch |-> NoFetch, files |-> iFiles]
        ELSE IF vi = 0 THEN [msg |-> "Version not found", fetch |-> NoFetch, files |-> iFiles]
        ELSE [msg |-> IF d = "ok" /\ libPath \in DOMAIN after /\ ~after[libPath].dir
                      THEN "Installed" ELSE "Failed to download library",
              fetch |-> [url |-> ver.url, path |-> libPath],
              files |-> after]

installLib ==
    /\ iCount < MaxCmds
    /\ iCount' = iCount + 1
    /\ \E libName \in InstallNames, version \in VersionArgs,
          io \in IndexOutcomes, d \in DownloadFileOutcomes :
          LET r == Install(libName, version, io, d)
          IN  /\ iFiles' = r.files
              /\ iLast' = [cmd |-> "install", lib |-> libName, version |-> version,
                           msg |-> r.msg, fetch |-> r.fetch, names |-> {},
                           changed |-> (r.files # iFiles)]
    /\ UNCHANGED <<bvars, rvars, cvars, hvars>>

\* the entries removeLib tries to remove
Matching(libName) ==
    {n \in DOMAIN iFiles :
        /\ ~iFiles[n].dir
        /\ HasPrefix(n, libName \o <<"-">>)
        /\ HasSuffix(n, DotVira)}

\* removeLib(libName): os.ReadDir may fail, and so may each os.Remove
removeLib ==
    /\ iCount < MaxCmds
    /\ iCount' = iCount + 1
    /\ \E libName \in InstallNames :
          \/ /\ iLast' = [cmd |-> "remove", lib |-> libName, version |-> <<>>,
                          msg |-> "Failed to list libraries", fetch |-> NoFetch,
                          names |-> {}, changed |-> FALSE]
             /\ UNCHANGED iFiles
          \/ \E gone \in SUBSET Matching(libName) :
                /\ iFiles' = [n \in DOMAIN iFiles \ gone |-> iFiles[n]]
                /\ iLast' = [cmd |-> "remove", lib |-> libName, version |-> <<>>,
                             msg |-> IF gone = {} THEN "No library matching" ELSE "Removed",
                             fetch |-> NoFetch,
                             names |-> {[name |-> n, dir |-> iFiles[n].dir,
                                         lib |-> iFiles[n].lib] : n \in gone},
                             changed |-> (gone # {})]
    /\ UNCHANGED <<bvars, rvars, cvars, hvars>>

\* listLibs(): the names of the entries that are no directories
listLibs ==
    /\ iCount < MaxCmds
    /\ iCount' = iCount + 1
    /\ \/ iLast' = [cmd |-> "list", lib |-> <<>>, version |-> <<>>,
                    msg |-> "Failed to list libraries", fetch |-> NoFetch,
                    names |-> {}, changed |-> FALSE]
       \/ iLast' = [cmd |-> "list", lib |-> <<>>, version |-> <<>>,
                    msg |-> IF DOMAIN iFiles = {} THEN "No libraries installed"
                            ELSE "Installed libraries:",
                    fetch |-> NoFetch,
                    names |-> {[name |-> n, dir |-> FALSE, lib |-> iFiles[n].lib] :
                                  n \in {m \in DOMAIN iFiles : ~iFiles[m].dir}},
                    changed |-> FALSE]
    /\ UNCHANGED <<bvars, rvars, cvars, hvars, iFiles>>

NoCommand == [cmd |-> "", lib |-> <<>>, version |-> <<>>, msg |-> "", fetch |-> NoFetch,
              names |-> {}, changed |-> FALSE]

InstallIdle ==
    /\ iFiles = << >>
    /\ iLast = NoCommand
    /\ iCount = MaxCmds

\* libsDir holds nothing, or a directory whose name looks like an artifact
InstallInit ==
    /\ iFiles \in {<< >>, Put(<< >>, LibFile(<<"a">>, <<"x">>), DirEntry)}
    /\ iLast = NoCommand
    /\ iCount = 0

InstallNext == installLib \/ removeLib \/ listLibs

vars == <<bvars, rvars, cvars, hvars, ivars>>

\* one `virus compile` (src/source/main.go)
Init == BuildInit /\ ResolveIdle /\ CmdIdle /\ DiagIdle /\ InstallIdle

Next == BuildNext

Spec == Init /\ [][Next]_vars

\* successive `virus compile` runs of one project on one host
SpecRebuild == Init /\ [][BuildNext \/ NewBuild]_vars

\* concurrent runs of the host-only compileProject (src/cmd/main.go)
CmdProject ==
    /\ pc = "idle"
    /\ build = 0
    /\ config \in CmdConfigs
    /\ exitCode = -1
    /\ failure = ""
    /\ tempDir = NoRoot
    /\ hostDirs = {}
    /\ files = <<>>
    /\ hostExe = NoExe
    /\ netLog = <<>>
    /\ session = "none"
    /\ apiLog = <<>>
    /\ execLog = <<>>
    /\ todo = {}
    /\ cur = ""
    /\ curVer = 0
    /\ resp = 0
    /\ depPaths = <<>>
    /\ objectFiles = <<>>
    /\ diag = <<>>

InitCmd == CmdProject /\ ResolveIdle /\ CmdInit /\ DiagIdle /\ InstallIdle

SpecCmd == InitCmd /\ [][CmdNext]_vars

ResolveInit ==
    /\ rVersions \in VersionLists
    /\ rSpec \in VersionSpecs
    /\ rResult = -1

ResolveCall ==
    /\ rResult = -1
    /\ rResult' = resolveVersion(rVersions, rSpec)
    /\ UNCHANGED <<rVersions, rSpec, bvars, cvars, hvars, ivars>>

InitResolve == ResolveInit /\ BuildIdle /\ CmdIdle /\ DiagIdle /\ InstallIdle

SpecResolve == InitResolve /\ [][ResolveCall]_vars

\* one call of handleError
InitDiag == DiagInit /\ BuildIdle /\ ResolveIdle /\ CmdIdle /\ InstallIdle

SpecDiag == InitDiag /\ [][handleError]_vars

\* a sequence of commands of the library manager
InitInstall == InstallInit /\ BuildIdle /\ ResolveIdle /\ CmdIdle /\ DiagIdle

SpecInstall == InitInstall /\ [][InstallNext]_vars

(***************************************************************************)
(* Properties of the build (src/source/main.go).                           *)
(***************************************************************************)
ApiCount(op) == Cardinality({i \in DOMAIN apiLog : apiLog[i] = Api(op, TRUE)})

SessionCreated == ApiCount("create") = 1

ExecFiles(e) == {e.argv[k].path : k \in {j \in DOMAIN e.argv : e.argv[j].kind = "file"}}

IsStageExec(e) ==
    \/ e.argv[1].word \in {"preprocessor", "plsa", "compiler", "g++"}
    \/ e.argv[1].word = "gcc" /\ e.argv[2].word = "-c"

(***************************************************************************)
(* C1: in every run of compileProject in which the container was created,  *)
(* Stop followed by Remove is executed exactly once before the process     *)
(* ends, on every termination path.                                        *)
(***************************************************************************)
C1_TeardownOnEveryExit ==
    (Ended /\ SessionCreated) =>
        /\ ApiCount("stop") = 1
        /\ ApiCount("remove") = 1
        /\ session = "Removed"

(***************************************************************************)
(* C2: the directory made by os.MkdirTemp no longer exists when the build  *)
(* process ends, on every exit path reached after its creation.            *)
(***************************************************************************)
C2_WorkspaceRemovedOnEveryExit ==
    (Ended /\ tempDir # NoRoot) => tempDir \notin hostDirs

(***************************************************************************)
(* C3: once a stage exec of a translation unit fails (exec error or        *)
(* non-zero exit) nothing more is exec'd: no later stage of the unit, no   *)
(* stage of a later unit, no link; the process has exited with failure.    *)
(***************************************************************************)
C3_AbortOnFirstFailure ==
    \A i \in DOMAIN execLog :
        (IsStageExec(execLog[i]) /\ (execLog[i].err \/ execLog[i].exit # 0)) =>
            /\ i = Len(execLog)
            /\ pc = "exited"
            /\ exitCode = 1

\* a dependency's preprocessor exited non-zero while another dependency and
\* the main unit were still to be compiled
C3_Witness ==
    /\ pc = "exited"
    /\ execLog # <<>>
    /\ execLog[Len(execLog)].argv[1].word = "preprocessor"
    /\ execLog[Len(execLog)].exit = 1
    /\ cur # ""
    /\ todo # {}

(***************************************************************************)
(* C4: in a build that fails because a library is not in the catalog, no   *)
(* version matches the spec, or an artifact download fails, no image pull, *)
(* container create, start or exec has happened at the time of failure.    *)
(***************************************************************************)
C4_NoSandboxBeforeFetchFailure ==
    (pc = "exited" /\ failure \in {"Library not found", "No matching version",
                                   "Failed to download"}) =>
        /\ apiLog = <<>>
        /\ execLog = <<>>
        /\ session = "none"

(***************************************************************************)
(* C5: when the response for a dependency's url has a non-success status   *)
(* the fetch reports an error and the build aborts with a failure exit; no *)
(* stage is exec'd on a file holding the body of such a response.          *)
(***************************************************************************)
C5_NotFoundAbortsBuild ==
    /\ (resp # 0 /\ resp # 200) => pc \in {"osCreate", "ioCopy", "exited"}
    /\ \A i \in DOMAIN execLog :
          \A f \in ExecFiles(execLog[i]) :
              LET h == ReplaceRoot(f, WorkRoot, tempDir)
              IN  h \in DOMAIN files => files[h].status = 200

(***************************************************************************)
(* C6: in every reachable state a file exists at an artifact's destination *)
(* path only if a transfer of that artifact completed successfully.        *)
(***************************************************************************)
C6_NoPartialFileAtTarget ==
    \A p \in DOMAIN files : files[p].full

(***************************************************************************)
(* C7: two successive builds of the same project transfer a dependency's   *)
(* artifact once: after a completed transfer of name/version no later run  *)
(* of the fetch step transfers it again.                                   *)
(***************************************************************************)
C7_FetchOncePerArtifact ==
    \A i, j \in DOMAIN netLog :
        (i < j /\ netLog[i].complete
               /\ netLog[i].name = netLog[j].name
               /\ netLog[i].version = netLog[j].version) => FALSE

(***************************************************************************)
(* C8: concurrent builds that need the same name+version are serialized    *)
(* per key: at most one of them transfers the artifact, the destination    *)
(* file never has two writers, and no build reads a destination file that  *)
(* another build is still writing.                                         *)
(***************************************************************************)
C8_SingleFlightPerKey ==
    /\ \A i, j \in DOMAIN cNet :
          (cNet[i].name = cNet[j].name /\ cNet[i].version = cNet[j].version) => i = j
    /\ \A f \in DOMAIN cFiles : Cardinality(cFiles[f].writers) <= 1
    /\ \A r \in cReads : r.writers \subseteq {r.proc}

(***************************************************************************)
(* C9: resolveVersion(versions, "*") returns exactly the last element of   *)
(* versions when the list is non-empty, and nil when the list is empty.    *)
(***************************************************************************)
C9_StarIsLast ==
    (rResult # -1 /\ rSpec = <<"*">>) =>
        IF Len(rVersions) = 0 THEN rResult = 0 ELSE rResult = Len(rVersions)

C9_Witness ==
    /\ rResult # -1
    /\ rSpec = <<"*">>
    /\ Len(rVersions) >= 2
    /\ rVersions[1].version # rVersions[Len(rVersions)].version
    /\ rVersions[rResult] = rVersions[Len(rVersions)]

(***************************************************************************)
(* C10: for a spec "^" + p the result is the version with the greatest     *)
(* list index whose version string has p as a literal prefix, nil when no  *)
(* version has that prefix; over ["1.0.0","1.2.0","2.0.0"] the spec "^1."  *)
(* yields "1.2.0".                                                         *)
(***************************************************************************)
C10_CaretIsNewestPrefixMatch ==
    (rResult # -1 /\ Len(rSpec) >= 1 /\ rSpec[1] = "^") =>
        LET p == SubSeq(rSpec, 2, Len(rSpec))
            matching == {i \in 1..Len(rVersions) : HasPrefix(rVersions[i].version, p)}
        IN  /\ (matching = {}) => rResult = 0
            /\ (matching # {}) =>
                  /\ rResult \in matching
                  /\ \A j \in matching : j <= rResult
            /\ (rVersions = ExampleVersions /\ p = <<"1", ".">>) =>
                  rVersions[rResult].version = V120

C10_Witness ==
    /\ rResult = 2
    /\ rVersions = ExampleVersions
    /\ rSpec = <<"^", "1", ".">>

(***************************************************************************)
(* C11: for a spec that is neither "*" nor starts with "^" the result is   *)
(* the newest version whose string equals the spec, nil when no version    *)
(* string equals it ("9.9.9" over ["1.0.0","1.2.0","2.0.0"] is nil); for   *)
(* any spec a returned version is an element of the input list.            *)
(***************************************************************************)
C11_ExactIsNewestEqual ==
    (rResult # -1) =>
        /\ rResult \in 0..Len(rVersions)
        /\ (rSpec # <<"*">> /\ ~(Len(rSpec) >= 1 /\ rSpec[1] = "^")) =>
              LET equal == {i \in 1..Len(rVersions) : rVersions[i].version = rSpec}
              IN  /\ (equal = {}) => rResult = 0
                  /\ (equal # {}) =>
                        /\ rResult \in equal
                        /\ \A j \in equal : j <= rResult
        /\ (rVersions = ExampleVersions /\ rSpec = V999) => rResult = 0

\* the spec equals an older and a newer entry, with another version between
C11_Witness ==
    /\ rResult = 3
    /\ Len(rVersions) = 3
    /\ rSpec = <<"1">>
    /\ rVersions[1].version = rSpec
    /\ rVersions[2].version # rSpec
    /\ rVersions[3].version = rSpec

(***************************************************************************)
(* C13: a dependency whose library is absent from the catalog and one      *)
(* whose library has no version matching the spec end the build with two   *)
(* different errors, each about the queried name (cur) and spec            *)
(* (config[cur]); neither miss is reported as the other.                   *)
(***************************************************************************)
InCatalog(name) == \E i \in DOMAIN Index : Index[i].name = name

\* whether a version string satisfies a spec, stated without the scan
Satisfies(version, spec) ==
    \/ spec = <<"*">>
    \/ /\ Len(spec) >= 1
       /\ spec[1] = "^"
       /\ Len(version) >= Len(spec) - 1
       /\ \A k \in 2..Len(spec) : version[k - 1] = spec[k]
    \/ /\ ~(Len(spec) >= 1 /\ spec[1] = "^")
       /\ version = spec

SomeVersionSatisfies(name, spec) ==
    \E i \in DOMAIN Index :
        /\ Index[i].name = name
        /\ \E k \in DOMAIN Index[i].versions : Satisfies(Index[i].versions[k].version, spec)

LibraryMiss == cur # "" /\ ~InCatalog(cur)
VersionMiss == cur # "" /\ InCatalog(cur) /\ ~SomeVersionSatisfies(cur, config[cur])

C13_DistinctResolutionErrors ==
    /\ LibraryMiss => (pc = "exited" /\ exitCode = 1 /\ failure = "Library not found")
    /\ VersionMiss => (pc = "exited" /\ exitCode = 1 /\ failure = "No matching version")
    /\ (failure = "Library not found") => LibraryMiss
    /\ (failure = "No matching version") => VersionMiss

\* the second dependency visited is not in the catalog
C13_Witness ==
    /\ pc = "exited"
    /\ failure = "Library not found"
    /\ cur = "libz"
    /\ Len(depPaths) = 1

(***************************************************************************)
(* C14: the container only moves none -> Created -> Running -> Stopped ->  *)
(* Removed, one step at a time; at most one container is created per       *)
(* build; every exec (apk setup, stages, link) is issued and returns while *)
(* the container is Running.                                               *)
(***************************************************************************)
SessionOrder ==
    {<<"none", "Created">>, <<"Created", "Running">>, <<"Running", "Stopped">>,
     <<"Stopped", "Removed">>}

C14_SessionLifecycle ==
    [][ /\ (session' # session) => (<<session, session'>> \in SessionOrder)
        /\ (execLog' # execLog) => (session = "Running" /\ session' = "Running")
        /\ Cardinality({i \in DOMAIN apiLog' : apiLog'[i].op = "create"}) <= 1 ]_vars

\* a build that went through the whole life cycle, execs included
C14_Witness ==
    /\ pc = "done"
    /\ session = "Removed"
    /\ Len(execLog) >= 4
    /\ ApiCount("create") = 1

(***************************************************************************)
(* C15: the link is exec'd only after every unit's pipeline succeeded; its *)
(* object arguments are the objects of the compiled dependencies in the    *)
(* order the dependencies were iterated and compiled, then the main unit's *)
(* object as the last one.                                                 *)
(***************************************************************************)
IsLinkExec(e) == e.argv[1].word = "gcc" /\ e.argv[2].word # "-c"

ProducesObject(e) ==
    \/ e.argv[1].word \in {"compiler", "g++"}
    \/ e.argv[1].word = "gcc" /\ e.argv[2].word = "-c"

\* the object arguments of a link: what stands between "gcc" and "-o"
LinkObjects(e) == [k \in 1..(Len(e.argv) - 3) |-> e.argv[k + 1].path]

\* the outputs of the object-producing execs among the first n, in exec order
RECURSIVE ObjectsProduced(_, _)
ObjectsProduced(log, n) ==
    IF n = 0 THEN <<>>
    ELSE IF ProducesObject(log[n])
         THEN Append(ObjectsProduced(log, n - 1), log[n].argv[Len(log[n].argv)].path)
         ELSE ObjectsProduced(log, n - 1)

\* lib.o of the dependency directories among the first n that were compiled,
\* in the order of depPaths, which is the order of iteration
RECURSIVE ObjectsIterated(_, _, _)
ObjectsIterated(paths, n, produced) ==
    IF n = 0 THEN <<>>
    ELSE LET o == JoinFile(ReplaceRoot(paths[n], tempDir, WorkRoot), <<"lib", ".o">>)
         IN  IF \E k \in DOMAIN produced : produced[k] = o
             THEN Append(ObjectsIterated(paths, n - 1, produced), o)
             ELSE ObjectsIterated(paths, n - 1, produced)

C15_LinkAfterAllUnitsInOrder ==
    \A i \in DOMAIN execLog :
        IsLinkExec(execLog[i]) =>
            LET objs == LinkObjects(execLog[i])
                produced == ObjectsProduced(execLog, i - 1)
            IN  /\ \A j \in 1..(i - 1) : ~execLog[j].err /\ execLog[j].exit = 0
                /\ todo = {}
                /\ Len(depPaths) = Cardinality(DOMAIN config)
                /\ objs = produced
                /\ objs = Append(ObjectsIterated(depPaths, Len(depPaths), produced), MainO)
                /\ execLog[i].argv[Len(execLog[i].argv) - 1] = Word("-o")

\* a link over the objects of two compiled dependencies and the main unit
C15_Witness ==
    /\ execLog # <<>>
    /\ IsLinkExec(execLog[Len(execLog)])
    /\ Len(LinkObjects(execLog[Len(execLog)])) = 3

(***************************************************************************)
(* C16: every stage exec that accepts include-path flags (preprocessor,    *)
(* gcc -c, g++ -c), for dependency units as well as for the main unit,     *)
(* receives the same include-flag list: exactly one -I flag below /work    *)
(* per resolved dependency.                                                *)
(***************************************************************************)
AcceptsIncludes(e) ==
    \/ e.argv[1].word \in {"preprocessor", "g++"}
    \/ e.argv[1].word = "gcc" /\ e.argv[2].word = "-c"

IsInclude(a) == a.word = "-I"

IncludeFlags(e) == SelectSeq(e.argv, IsInclude)

IsMainUnitExec(e) == \E k \in DOMAIN e.argv : e.argv[k] = File(MainInput)

\* one flag per dependency directory, translated to the container
OnePerDependency(flags) ==
    /\ Len(flags) = Len(depPaths)
    /\ \A k \in DOMAIN flags :
          /\ flags[k].path = [depPaths[k] EXCEPT !.root = WorkRoot]
          /\ depPaths[k].root = tempDir

NoDependencies == DOMAIN config = {}

BuildEnded == pc \in {"done", "exited"}

\* the execs after the two of apk
StageLog == SubSeq(execLog, 3, Len(execLog))

ExitedZero(e) == ~e.err /\ e.exit = 0

\* preprocessor, plsa, compiler and the link, each on the files of the main
\* unit, each with exit code 0
MainPipelineSucceeded ==
    /\ Len(StageLog) = 4
    /\ StageLog[1].argv = <<Word("preprocessor"), File(MainInput),
                            File([MainInput EXCEPT !.suffix = ".pre"])>>
    /\ StageLog[2].argv = <<Word("plsa"), File([MainInput EXCEPT !.suffix = ".pre"])>>
    /\ StageLog[3].argv = <<Word("compiler"), File([MainInput EXCEPT !.suffix = ".pre"]),
                            File(MainO)>>
    /\ StageLog[4].argv = <<Word("gcc"), File(MainO), Word("-o"), File(OutputExe)>>
    /\ \A k \in 1..4 : ExitedZero(StageLog[k])

\* the four execs never come in another order
PipelineOrder ==
    \A k \in DOMAIN StageLog :
        StageLog[k].argv[1].word = <<"preprocessor", "plsa", "compiler", "gcc">>[k]

MaxGap == 2

Spaces(n) == [k \in 1..n |-> " "]

Gaps == {Spaces(n) : n \in 1..MaxGap}

SignedNumerals == Numerals \cup {<<"-">> \o n : n \in Numerals} \cup {<<"+">> \o n : n \in Numerals}

\* the integer a numeral stands for
NumeralValue(n) ==
    IF n[1] = "-" THEN 0 - Decimal(Tail(n))
    ELSE IF n[1] = "+" THEN Decimal(Tail(n))
    ELSE Decimal(n)

\* text p stands in m at index k and its final numeral ends there
StandsAt(m, k, p) ==
    /\ k + Len(p) - 1 <= Len(m)
    /\ SubSeq(m, k, k + Len(p) - 1) = p
    /\ k + Len(p) > Len(m) \/ ~IsDigit(m[k + Len(p)])

\* "line L, column C"
Pattern(L, C) == KwLine \o <<" ">> \o L \o <<",", " ">> \o KwColumn \o <<" ">> \o C

\* "line L" and ", column C" with one or more spaces where the format has one
LinePart(a, L) == KwLine \o a \o L
ColumnPart(b, c, C) == <<",">> \o b \o KwColumn \o c \o C

\* message is the first line of errorMsg
IsFirstLineOf(message, errorMsg) ==
    /\ \A k \in DOMAIN message : message[k] # "\n"
    /\ Len(message) <= Len(errorMsg)
    /\ SubSeq(errorMsg, 1, Len(message)) = message
    /\ Len(message) < Len(errorMsg) => errorMsg[Len(message) + 1] = "\n"

(***************************************************************************)
(* C19: handleError takes the first line of the failing stage's output as  *)
(* the message; when that line contains a "line L, column C" pattern the   *)
(* diagnostic position is (L, C), and when the pattern is absent the       *)
(* position is line 1, column 1.                                           *)
(***************************************************************************)
C19_PositionFromPatternAnywhere ==
    hpc = "returned" =>
        /\ IsFirstLineOf(hArgv.message, hErrorMsg)
        /\ IF \E k \in DOMAIN hArgv.message : \E L, C \in Numerals :
                  StandsAt(hArgv.message, k, Pattern(L, C))
           THEN \E k \in DOMAIN hArgv.message : \E L, C \in Numerals :
                  /\ StandsAt(hArgv.message, k, Pattern(L, C))
                  /\ hArgv.line = NumeralValue(L)
                  /\ hArgv.column = NumeralValue(C)
           ELSE hArgv.line = 1 /\ hArgv.column = 1

\* what the code does: the scan starts at the first character of the line,
\* so a pattern counts at the start only, and a line that starts with
\* "line L" alone gives (L, 1)
handleError_PositionFromStartOnly ==
    hpc = "returned" =>
        /\ IsFirstLineOf(hArgv.message, hErrorMsg)
        /\ IF \E a \in Gaps, L \in SignedNumerals : StandsAt(hArgv.message, 1, LinePart(a, L))
           THEN \A a \in Gaps, L \in SignedNumerals :
                   StandsAt(hArgv.message, 1, LinePart(a, L)) =>
                       /\ hArgv.line = NumeralValue(L)
                       /\ IF \E b, c \in Gaps, C \in SignedNumerals :
                                StandsAt(hArgv.message, 1, LinePart(a, L) \o ColumnPart(b, c, C))
                          THEN \A b, c \in Gaps, C \in SignedNumerals :
                                  StandsAt(hArgv.message, 1, LinePart(a, L) \o ColumnPart(b, c, C))
                                      => hArgv.column = NumeralValue(C)
                          ELSE hArgv.column = 1
           ELSE hArgv.line = 1 /\ hArgv.column = 1

(***************************************************************************)
(* C20: when the diagnostic-formatting tool fails to run or exits with an  *)
(* error, handleError prints the failing stage's raw output verbatim (the  *)
(* errorMsg it was given), so the stage's error text is never suppressed.  *)
(***************************************************************************)
C20_RawOutputWhenDiagnosticFails ==
    (hpc = "returned" /\ hDiag.err) =>
        \E k \in DOMAIN hPrinted : hPrinted[k].text = hErrorMsg

(***************************************************************************)
(* Properties of the library manager (src/cmd/main.go lines 1-236).        *)
(***************************************************************************)
IndexErrors == IndexOutcomes \ {"ok"}

Listed(libName) == \E i \in DOMAIN InstallIndex : InstallIndex[i].name = libName

\* the versions the index lists for the library
VersionsOf(libName) ==
    InstallIndex[CHOOSE i \in DOMAIN InstallIndex : InstallIndex[i].name = libName].versions

HasVersion(libName, v) ==
    \E k \in DOMAIN VersionsOf(libName) : VersionsOf(libName)[k].version = v

\* no artifact was requested and libsDir is as it was
InstalledNothing == iLast.fetch = NoFetch /\ ~iLast.changed

\* the command went for version v of the library: the artifact of the index
\* entry of that version (the first one, should several carry it) to
\* <lib>-<v>.vira, which holds it completely when "Installed" is reported
WentFor(libName, v) ==
    /\ iLast.fetch.path = LibFile(libName, v)
    /\ \E k \in DOMAIN VersionsOf(libName) :
          /\ VersionsOf(libName)[k].version = v
          /\ \A j \in 1..(k - 1) : VersionsOf(libName)[j].version # v
          /\ iLast.fetch.url = VersionsOf(libName)[k].url
    /\ iLast.msg \in {"Installed", "Failed to download library"}
    /\ iLast.msg = "Installed" =>
          /\ iLast.fetch.path \in DOMAIN iFiles
          /\ iFiles[iLast.fetch.path] =
                [dir |-> FALSE, lib |-> libName, version |-> v, url |-> iLast.fetch.url,
                 full |-> TRUE]

LastExec == execLog[Len(execLog)]

StageFailed ==
    /\ execLog # <<>>
    /\ IsStageExec(LastExec)
    /\ LastExec.err \/ LastExec.exit # 0

\* the input argument of a stage exec: the file before the output of the
\* preprocessor and the code generator, the file before -o of gcc -c and
\* g++ -c, the only file of the checker
StageInput(e) ==
    CASE e.argv[1].word = "preprocessor" -> e.argv[Len(e.argv) - 1].path
      [] e.argv[1].word = "plsa" -> e.argv[2].path
      [] e.argv[1].word = "compiler" -> e.argv[2].path
      [] OTHER -> e.argv[Len(e.argv) - 2].path

C22_DiagnosticSourceIsStageInput ==
    /\ Len(diag) <= 1
    /\ Len(diag) = 1 <=> StageFailed
    /\ StageFailed =>
          /\ pc = "exited"
          /\ diag[1].root = tempDir
          /\ ReplaceRoot(diag[1], tempDir, WorkRoot) = StageInput(LastExec)
          /\ LastExec.argv[1].word \in {"plsa", "compiler"} <=> diag[1].suffix = ".pre"
          /\ LastExec.argv[1].word \in {"preprocessor", "gcc", "g++"} =>
                diag[1].file[2] \in {".vira", ".c", ".cpp", ".CPP"}

\* the checker failed on the preprocessed file of a dependency
C22_Witness ==
    /\ StageFailed
    /\ LastExec.argv[1].word = "plsa"
    /\ Len(diag) = 1
    /\ diag[1].dir # <<"src">>
    /\ diag[1].suffix = ".pre"

(***************************************************************************)
(* C23: per-unit stage order and data flow.  For a .vira unit the execs    *)
(* are preprocessor, then checker, then code generator, strictly in that   *)
(* order, each starting only after the previous returned success; checker  *)
(* and code generator take as input the file the preprocessor was told to  *)
(* write (input + ".pre"), and the code generator writes the unit's object *)
(* path.  A .c or .cpp unit is compiled by exactly one exec (gcc -c or     *)
(* g++ -c) with no preprocessor or checker exec.                           *)
(***************************************************************************)
StageWord(e) == e.argv[1].word

\* the output argument of a preprocessor, code generator, gcc -c or g++ -c
StageOutput(e) == e.argv[Len(e.argv)].path

\* the object path of the unit whose source is the path src
ObjectOf(src) ==
    IF src = MainInput THEN MainO
    ELSE [src EXCEPT !.file = <<"lib", ".o">>]

\* the unit an exec works on: the directory of its input
SameUnit(e, f) ==
    /\ StageInput(e).root = StageInput(f).root
    /\ StageInput(e).dir = StageInput(f).dir

C23_StageOrderAndDataFlow ==
    \A i \in DOMAIN execLog :
        LET e == execLog[i]
        IN  IsStageExec(e) =>
              /\ StageWord(e) = "preprocessor" =>
                    /\ ToLower(Ext(StageInput(e).file)) = ".vira"
                    /\ StageInput(e).suffix = ""
                    /\ StageOutput(e) = [StageInput(e) EXCEPT !.suffix = ".pre"]
                    /\ \A j \in 1..(i - 1) :
                          IsStageExec(execLog[j]) => ~SameUnit(e, execLog[j])
                    /\ (ExitedZero(e) /\ i < Len(execLog)) => StageWord(execLog[i + 1]) = "plsa"
              /\ StageWord(e) = "plsa" =>
                    /\ StageWord(execLog[i - 1]) = "preprocessor"
                    /\ ExitedZero(execLog[i - 1])
                    /\ StageInput(e) = StageOutput(execLog[i - 1])
                    /\ (ExitedZero(e) /\ i < Len(execLog)) =>
                          StageWord(execLog[i + 1]) = "compiler"
              /\ StageWord(e) = "compiler" =>
                    /\ StageWord(execLog[i - 1]) = "plsa"
                    /\ ExitedZero(execLog[i - 1])
                    /\ StageInput(e) = StageInput(execLog[i - 1])
                    /\ StageInput(e) = StageOutput(execLog[i - 2])
                    /\ StageOutput(e) = ObjectOf(StageInput(execLog[i - 2]))
                    /\ \A j \in (i + 1)..Len(execLog) :
                          IsStageExec(execLog[j]) => ~SameUnit(e, execLog[j])
              /\ StageWord(e) \in {"gcc", "g++"} =>
                    /\ ToLower(Ext(StageInput(e).file)) =
                          (IF StageWord(e) = "gcc" THEN ".c" ELSE ".cpp")
                    /\ StageOutput(e) = ObjectOf(StageInput(e))
                    /\ \A j \in DOMAIN execLog :
                          (j # i /\ IsStageExec(execLog[j])) => ~SameUnit(e, execLog[j])

\* a dependency in .vira went through its three stages and another
\* dependency was compiled by g++ -c
C23_Witness ==
    /\ \E i \in DOMAIN execLog :
          /\ StageWord(execLog[i]) = "compiler"
          /\ ExitedZero(execLog[i])
          /\ StageInput(execLog[i]).dir # <<"src">>
    /\ \E i \in DOMAIN execLog : StageWord(execLog[i]) = "g++" /\ ExitedZero(execLog[i])

(***************************************************************************)
(* C24: a failed link (exec error or non-zero exit of the linker) is       *)
(* fatal: the build ends with a failure exit, the link is not retried, and *)
(* no executable is copied to the host output location bin/<package name>; *)
(* the host copy happens only after a link that exited 0.                  *)
(***************************************************************************)
LinkExecs == {i \in DOMAIN execLog : IsLinkExec(execLog[i])}

C24_FailedLinkIsFatal ==
    /\ Cardinality(LinkExecs) <= 1
    /\ \A i \in LinkExecs :
          ~ExitedZero(execLog[i]) =>
              /\ i = Len(execLog)
              /\ pc = "exited"
              /\ exitCode = 1
              /\ failure = "Linking failed"
              /\ hostExe = NoExe
    /\ (hostExe # NoExe \/ pc \in {"mkdirBin", "copyExe"}) =>
          \E i \in LinkExecs : ExitedZero(execLog[i])

\* the linker returned a non-zero exit code after two units were compiled
C24_Witness ==
    /\ \E i \in LinkExecs :
          /\ ~execLog[i].err
          /\ execLog[i].exit # 0
          /\ Len(LinkObjects(execLog[i])) = 2
    /\ pc = "exited"

(***************************************************************************)
(* C25: removeLib(L) deletes only files that belong to library L: every    *)
(* installed artifact of a different library name (as written by           *)
(* installLib under <name>-<version>.vira), including a library whose name *)
(* starts with L followed by "-", is left unchanged, as is every directory *)
(* entry.                                                                  *)
(***************************************************************************)
C25_RemoveTouchesOnlyItsLibrary ==
    iLast.cmd = "remove" =>
        /\ iLast.changed <=> iLast.names # {}
        /\ \A r \in iLast.names :
              /\ ~r.dir
              /\ r.lib = iLast.lib
              /\ r.name \notin DOMAIN iFiles

(***************************************************************************)
(* C26: a resolved dependency whose artifact file extension is none of     *)
(* .vira, .c, .cpp causes no compile exec and contributes no object to the *)
(* link list, yet its directory still contributes one -I include flag to   *)
(* the main unit; for every dependency that is compiled, exactly one       *)
(* object path is appended, and all object paths in the link list are      *)
(* pairwise distinct.                                                      *)
(***************************************************************************)
\* extension of the artifact the catalog gives for a dependency directory
ArtifactExt(p) ==
    LET lib == Index[CHOOSE i \in DOMAIN Index : Index[i].name = p.dir[2]]
        k == CHOOSE j \in DOMAIN lib.versions : lib.versions[j].version = p.dir[3]
    IN  Ext(Base(lib.versions[k].url))

IsCompiled(p) == ToLower(ArtifactExt(p)) \in {".vira", ".c", ".cpp"}

InSandbox(p) == [p EXCEPT !.root = WorkRoot]

Occurrences(seq, x) == Cardinality({k \in DOMAIN seq : seq[k] = x})

\* the execs that work on a file of the dependency directory
UnitExecs(p) ==
    {i \in DOMAIN execLog :
        \E f \in ExecFiles(execLog[i]) :
            /\ execLog[i].argv[1].word # "gcc" \/ execLog[i].argv[2].word = "-c"
            /\ f.file # <<>>
            /\ f.dir = p.dir}

Distinct(seq) == \A k, l \in DOMAIN seq : seq[k] = seq[l] => k = l

C26_UncompiledDependencies ==
    /\ Distinct(objectFiles)
    /\ \A i \in DOMAIN execLog : IsLinkExec(execLog[i]) => Distinct(LinkObjects(execLog[i]))
    /\ \A k \in DOMAIN depPaths :
          LET p == depPaths[k]
              o == JoinFile(InSandbox(p), <<"lib", ".o">>)
          IN  /\ ~IsCompiled(p) =>
                    /\ UnitExecs(p) = {}
                    /\ Occurrences(objectFiles, o) = 0
                    /\ \A i \in DOMAIN execLog :
                          IsLinkExec(execLog[i]) => Occurrences(LinkObjects(execLog[i]), o) = 0
              /\ IsCompiled(p) =>
                    /\ Occurrences(objectFiles, o) =
                          (IF \E i \in UnitExecs(p) :
                                 ProducesObject(execLog[i]) /\ ExitedZero(execLog[i])
                           THEN 1 ELSE 0)
                    /\ (k < Len(depPaths) \/ pc \in {"depLoop", "link", "mkdirBin", "copyExe", "done"})
                          => Occurrences(objectFiles, o) = 1
              /\ \A i \in DOMAIN execLog :
                    (IsMainUnitExec(execLog[i]) /\ AcceptsIncludes(execLog[i])) =>
                        Occurrences(IncludeFlags(execLog[i]), Incl(InSandbox(p))) = 1

\* a build with a compiled and an uncompiled dependency has linked two
\* objects after preprocessing the main unit with two include flags
C26_Witness ==
    /\ \E k \in DOMAIN depPaths : ~IsCompiled(depPaths[k])
    /\ \E k \in DOMAIN depPaths : IsCompiled(depPaths[k])
    /\ \E i \in DOMAIN execLog :
          /\ IsMainUnitExec(execLog[i])
          /\ Len(IncludeFlags(execLog[i])) = 2
    /\ \E i \in DOMAIN execLog :
          /\ IsLinkExec(execLog[i])
          /\ Len(LinkObjects(execLog[i])) = 2

====
